---- MODULE Spec2Model ----
(***************************************************************************)
(* Model of maturin's `generate-ci` command (src/ci.rs): the generation of *)
(* a GitHub Actions workflow from a bridge model, a GenerateCI             *)
(* configuration, a project name and an sdist flag.                        *)
(*                                                                         *)
(* The document is kept structured (header lines, then job sections, each  *)
(* an ordered list of steps); every string is the literal text the code    *)
(* emits, built with \o where the code interpolates.  The value of an      *)
(* `args:` key is kept as the token list the code joins with single        *)
(* spaces.                                                                 *)
(***************************************************************************)
EXTENDS Integers, Sequences, FiniteSets, TLC

\* Longest requested platform list (`--platform` may be repeated).
MaxLen == 2

----------------------------------------------------------------------------
(* Platform                                                                *)

Platform == {"All", "Linux", "Windows", "Macos", "Emscripten"}

\* PlatformOrd with Macos declared before Windows.
PlatformOrd_macos_first(p) ==
    CASE p = "All" -> 0
      [] p = "Linux" -> 1
      [] p = "Macos" -> 2
      [] p = "Windows" -> 3
      [] p = "Emscripten" -> 4

\* #[derive(PartialOrd, Ord)]: variants compare in declaration order.
PlatformOrd(p) ==
    CASE p = "All" -> 0
      [] p = "Linux" -> 1
      [] p = "Windows" -> 2
      [] p = "Macos" -> 3
      [] p = "Emscripten" -> 4

Platform_defaults == <<"Linux", "Windows", "Macos">>

Platform_all == <<"Linux", "Windows", "Macos", "Emscripten">>

\* impl fmt::Display for Platform
Platform_fmt(p) ==
    CASE p = "All" -> "all"
      [] p = "Linux" -> "linux"
      [] p = "Windows" -> "windows"
      [] p = "Macos" -> "macos"
      [] p = "Emscripten" -> "emscripten"

----------------------------------------------------------------------------
(* Inputs                                                                  *)

\* BridgeModel: Bin(Option<..>), Bindings(..), BindingsAbi3(..), Cffi, UniFfi.
\* `some` is the Option of Bin and is FALSE for the other variants.
BridgeModel ==
    {[kind |-> "Bin", some |-> FALSE], [kind |-> "Bin", some |-> TRUE],
     [kind |-> "Bindings", some |-> FALSE],
     [kind |-> "BindingsAbi3", some |-> FALSE],
     [kind |-> "Cffi", some |-> FALSE], [kind |-> "UniFfi", some |-> FALSE]}

\* BridgeModel::is_bin
is_bin(b) == b.kind = "Bin"

\* Option<PathBuf>: <<>> is None, <<p>> is Some(p).
ManifestPaths == {<<>>, <<"Cargo.toml">>, <<"pkg/Cargo.toml">>, <<"/">>, <<"">>}

\* Path::parent on the paths above: None for a root and for the empty path.
Path_parent(p) ==
    CASE p = "pkg/Cargo.toml" -> <<"pkg">>
      [] p = "Cargo.toml" -> <<"">>
      [] p = "/" -> <<>>
      [] p = "" -> <<>>

\* std::env::args(): the program name, then the arguments.  The second and
\* the third vector parse to the same GenerateCI (`-o -` is the default).
Argvs ==
    {<<"maturin", "generate-ci", "github">>,
     <<"./target/debug/maturin", "generate-ci", "github">>,
     <<"maturin", "generate-ci", "github", "-o", "-">>}

ProjectNames == {"example"}

\* The lists that may be requested: any list up to MaxLen, and the default
\* value of `--platform`.
PlatformLists ==
    UNION {[1..n -> Platform] : n \in 1..MaxLen} \cup {Platform_defaults}

CARGO_PKG_NAME == "maturin"

CARGO_PKG_VERSION == "1.0.0"

----------------------------------------------------------------------------
(* Helpers                                                                 *)

RECURSIVE join(_, _)
\* [String]::join(sep)
join(s, sep) ==
    IF s = <<>> THEN ""
    ELSE IF Len(s) = 1 THEN s[1]
    ELSE s[1] \o sep \o join(Tail(s), sep)

Range(s) == {s[i] : i \in 1..Len(s)}

RECURSIVE flat_map_defaults(_, _)
\* flat_map with `All` always expanded to Platform::defaults().
flat_map_defaults(ps, b) ==
    IF ps = <<>> THEN <<>>
    ELSE (IF Head(ps) = "All" THEN Platform_defaults ELSE <<Head(ps)>>)
         \o flat_map_defaults(Tail(ps), b)

RECURSIVE flat_map(_, _)
\* self.platforms.iter().flat_map(..): `All` becomes Platform::all() unless
\* the bridge is a binary, then Platform::defaults(); others pass through.
flat_map(ps, b) ==
    IF ps = <<>> THEN <<>>
    ELSE (IF Head(ps) = "All"
          THEN (IF ~is_bin(b) THEN Platform_all ELSE Platform_defaults)
          ELSE <<Head(ps)>>) \o flat_map(Tail(ps), b)

\* .collect::<BTreeSet<_>>()
collect(s) == Range(s)

RECURSIVE BTreeSet_iter(_)
\* Iteration of a BTreeSet<Platform>: ascending in Ord.
BTreeSet_iter(S) ==
    IF S = {} THEN <<>>
    ELSE LET m == CHOOSE x \in S : \A y \in S : PlatformOrd(x) <= PlatformOrd(y)
         IN <<m>> \o BTreeSet_iter(S \ {m})

----------------------------------------------------------------------------
(* State                                                                   *)

VARIABLES
    self,           \* the GenerateCI value: platforms, pytest, zig,
                    \* manifest_path, output
    project_name,   \* argument of generate_github
    bridge_model,   \* argument of generate_github
    sdist,          \* argument of generate_github
    argv,           \* std::env::args() of the running process
    pc,             \* position in generate_github
    conf,           \* the document built so far
    needs,          \* job names pushed so far
    platforms,      \* the BTreeSet built from self.platforms
    iter,           \* what the `for platform in &platforms` loop has left
    prev,           \* <<>>, or the finished earlier invocation
    dest,           \* the writes made to the destination, in order
    ret             \* what execute returned: "none" until it returns

vars == <<self, project_name, bridge_model, sdist, argv, pc, conf, needs,
          platforms, iter, prev, dest, ret>>

----------------------------------------------------------------------------
(* Locals of generate_github                                               *)

is_abi3 == bridge_model.kind = "BindingsAbi3"

\* setup_python without the `self.pytest ||`.
setup_python_no_pytest ==
    \/ (bridge_model.kind = "Bin" /\ bridge_model.some)
    \/ bridge_model.kind \in {"Bindings", "BindingsAbi3", "Cffi", "UniFfi"}

\* setup_python with `BridgeModel::Bin(_)` for `BridgeModel::Bin(Some(_))`.
setup_python_any_bin ==
    \/ self.pytest
    \/ bridge_model.kind \in {"Bin", "Bindings", "BindingsAbi3", "Cffi", "UniFfi"}

setup_python ==
    \/ self.pytest
    \/ (bridge_model.kind = "Bin" /\ bridge_model.some)
    \/ bridge_model.kind \in {"Bindings", "BindingsAbi3", "Cffi", "UniFfi"}

\* gen_cmd with the program name left as it was given.
gen_cmd_raw == join(argv, " ")

\* argv with element 0 replaced by the package name, joined by spaces.
gen_cmd ==
    join([i \in 1..Len(argv) |-> IF i = 1 THEN CARGO_PKG_NAME ELSE argv[i]], " ")

\* The text before the first job section.
Header ==
    <<"# This file is autogenerated by maturin v" \o CARGO_PKG_VERSION,
      "# To update, run",
      "#",
      "#    " \o gen_cmd,
      "#",
      "on:",
      "  push:",
      "    branches:",
      "      - main",
      "      - master",
      "    tags:",
      "      - '*'",
      "  pull_request:",
      "  workflow_dispatch:",
      "",
      "jobs:">>

\* manifest_overridden without the comparison with Path::new("Cargo.toml").
manifest_overridden_any_some == self.manifest_path # <<>>

\* `manifest_path` is Some and differs from Path::new("Cargo.toml").
manifest_overridden ==
    self.manifest_path # <<>> /\ self.manifest_path[1] # "Cargo.toml"

\* One step of a job.  `with` and `env` are ordered key/value lists; a value
\* is its list of lines, or for `args` its list of space-separated tokens.
Step(name, uses, guard, shell, env, with, run) ==
    [name |-> name, uses |-> uses, guard |-> guard, shell |-> shell,
     env |-> env, with |-> with, run |-> run]

KV(k, v) == [key |-> k, val |-> v]

Job(id, title, runs_on, guard, job_needs, targets, steps) ==
    [id |-> id, title |-> title, runs_on |-> runs_on, guard |-> guard,
     needs |-> job_needs, targets |-> targets, steps |-> steps]

os_name(platform) ==
    IF platform \in {"Linux", "Emscripten"} THEN "ubuntu"
    ELSE Platform_fmt(platform)

\* targets with `ppc64` for `ppc64le` in the Linux matrix.
targets_ppc64(platform) ==
    CASE platform = "Linux" ->
           <<"x86_64", "x86", "aarch64", "armv7", "s390x", "ppc64">>
      [] platform = "Windows" -> <<"x64", "x86">>
      [] platform = "Macos" -> <<"x86_64", "aarch64">>
      [] OTHER -> <<>>

targets(platform) ==
    CASE platform = "Linux" ->
           <<"x86_64", "x86", "aarch64", "armv7", "s390x", "ppc64le">>
      [] platform = "Windows" -> <<"x64", "x86">>
      [] platform = "Macos" -> <<"x86_64", "aarch64">>
      [] OTHER -> <<>>

checkout_step == Step("", "actions/checkout@v3", "", "", <<>>, <<>>, <<>>)

setup_python_steps(platform) ==
    IF setup_python
    THEN <<Step("", "actions/setup-python@v4", "", "", <<>>,
                <<KV("python-version", <<"'3.10'">>)>>
                \o (IF platform = "Windows"
                    THEN <<KV("architecture", <<"${{ matrix.target }}">>)>>
                    ELSE <<>>),
                <<>>)>>
    ELSE <<>>

emscripten_steps(platform) ==
    IF platform = "Emscripten"
    THEN <<Step("", "", "", "", <<>>, <<>>, <<"pip install pyodide-build">>),
           Step("", "", "", "bash", <<>>, <<>>,
                <<"echo EMSCRIPTEN_VERSION=$(pyodide config get emscripten_version) >> $GITHUB_ENV">>),
           Step("", "mymindstorm/setup-emsdk@v12", "", "", <<>>,
                <<KV("version", <<"${{ env.EMSCRIPTEN_VERSION }}">>),
                  KV("actions-cache-folder", <<"emsdk-cache">>)>>,
                <<>>)>>
    ELSE <<>>

\* interpreter_args with the Emscripten branch tested first.
interpreter_args_emscripten_first(platform) ==
    IF platform = "Emscripten" THEN <<"-i", "3.10">>
    ELSE IF is_abi3 \/ (is_bin(bridge_model) /\ ~setup_python) THEN <<>>
    ELSE <<"--find-interpreter">>

\* The first value of `maturin_args`: how the interpreter is chosen.
interpreter_args(platform) ==
    IF is_abi3 \/ (is_bin(bridge_model) /\ ~setup_python) THEN <<>>
    ELSE IF platform = "Emscripten" THEN <<"-i", "3.10">>
    ELSE <<"--find-interpreter">>

manifest_args ==
    IF manifest_overridden
    THEN <<"--manifest-path", self.manifest_path[1]>>
    ELSE <<>>

\* zig_args without the test for Linux.
zig_args_any_platform(platform) ==
    IF self.zig THEN <<"--zig">> ELSE <<>>

zig_args(platform) ==
    IF self.zig /\ platform = "Linux" THEN <<"--zig">> ELSE <<>>

maturin_args(platform) ==
    interpreter_args(platform) \o manifest_args \o zig_args(platform)

maturin_target(platform) ==
    IF platform = "Emscripten" THEN "wasm32-unknown-emscripten"
    ELSE "${{ matrix.target }}"

build_wheels_step(platform) ==
    Step("Build wheels", "PyO3/maturin-action@v1", "", "", <<>>,
         <<KV("target", <<maturin_target(platform)>>),
           KV("args", <<"--release", "--out", "dist">> \o maturin_args(platform))>>
         \o (IF platform = "Linux" THEN <<KV("manylinux", <<"auto">>)>>
             ELSE IF platform = "Emscripten"
             THEN <<KV("rust-toolchain", <<"nightly">>)>>
             ELSE <<>>),
         <<>>)

artifact_name(platform) ==
    IF platform = "Emscripten" THEN "wasm-wheels" ELSE "wheels"

upload_wheels_step(platform) ==
    Step("Upload wheels", "actions/upload-artifact@v3", "", "", <<>>,
         <<KV("name", <<artifact_name(platform)>>), KV("path", <<"dist">>)>>,
         <<>>)

\* manifest_path.parent().unwrap() has nothing to unwrap.
unwrap_panics ==
    manifest_overridden /\ Path_parent(self.manifest_path[1]) = <<>>

chdir ==
    IF manifest_overridden
    THEN "cd " \o Path_parent(self.manifest_path[1])[1] \o " && "
    ELSE ""

pip_install == "pip install " \o project_name \o " --find-links dist --force-reinstall"

pytest_steps(platform) ==
    IF ~self.pytest THEN <<>>
    ELSE IF platform = "Linux"
    THEN <<Step("pytest", "", "${{ startsWith(matrix.target, 'x86_64') }}",
                "bash", <<>>, <<>>,
                <<"set -e", pip_install, "pip install pytest", chdir \o "pytest">>),
           Step("pytest", "uraimo/run-on-arch-action@v2.5.0",
                "${{ !startsWith(matrix.target, 'x86') && matrix.target != 'ppc64' }}",
                "", <<>>,
                <<KV("arch", <<"${{ matrix.target }}">>),
                  KV("distro", <<"ubuntu22.04">>),
                  KV("githubToken", <<"${{ github.token }}">>),
                  KV("install",
                     <<"apt-get update",
                       "apt-get install -y --no-install-recommends python3 python3-pip",
                       "pip3 install -U pip pytest">>),
                  KV("run",
                     <<"set -e",
                       "pip3 install " \o project_name \o " --find-links dist --force-reinstall",
                       chdir \o "pytest">>)>>,
                <<>>)>>
    ELSE IF platform = "Emscripten"
    THEN <<Step("", "actions/setup-node@v3", "", "", <<>>,
                <<KV("node-version", <<"'18'">>)>>, <<>>),
           Step("pytest", "", "", "", <<>>, <<>>,
                <<"set -e", "pyodide venv .venv", "source .venv/bin/activate",
                  pip_install, "pip install pytest", chdir \o "python -m pytest">>)>>
    ELSE <<Step("pytest", "", "${{ !startsWith(matrix.target, 'aarch64') }}",
                "bash", <<>>, <<>>,
                <<"set -e", pip_install, "pip install pytest", chdir \o "pytest">>)>>

\* platform_job with the test steps pushed before the build and the upload.
platform_job_tests_first(platform) ==
    Job(Platform_fmt(platform), "", os_name(platform) \o "-latest", "", <<>>,
        targets(platform),
        <<checkout_step>> \o setup_python_steps(platform)
        \o emscripten_steps(platform)
        \o pytest_steps(platform)
        \o <<build_wheels_step(platform), upload_wheels_step(platform)>>)

\* The section one iteration of the platform loop appends.
platform_job(platform) ==
    Job(Platform_fmt(platform), "", os_name(platform) \o "-latest", "", <<>>,
        targets(platform),
        <<checkout_step>> \o setup_python_steps(platform)
        \o emscripten_steps(platform)
        \o <<build_wheels_step(platform), upload_wheels_step(platform)>>
        \o pytest_steps(platform))

sdist_job ==
    Job("sdist", "", "ubuntu-latest", "", <<>>, <<>>,
        <<checkout_step,
          Step("Build sdist", "PyO3/maturin-action@v1", "", "", <<>>,
               <<KV("command", <<"sdist">>),
                 KV("args", <<"--out", "dist">> \o manifest_args)>>,
               <<>>),
          Step("Upload sdist", "actions/upload-artifact@v3", "", "", <<>>,
               <<KV("name", <<"wheels">>), KV("path", <<"dist">>)>>, <<>>)>>)

\* Whether the release job gets the two wasm steps.
release_has_wasm == "Emscripten" \in platforms

wasm_release_steps ==
    <<Step("", "actions/download-artifact@v3", "", "", <<>>,
           <<KV("name", <<"wasm-wheels">>), KV("path", <<"wasm">>)>>, <<>>),
      Step("Upload to GitHub Release", "softprops/action-gh-release@v1", "", "",
           <<>>,
           <<KV("files", <<"wasm/*.whl">>),
             KV("prerelease",
                <<"${{ contains(github.ref, 'alpha') || contains(github.ref, 'beta') }}">>)>>,
           <<>>)>>

release_job ==
    Job("release", "Release", "ubuntu-latest",
        "startsWith(github.ref, 'refs/tags/')", needs, <<>>,
        <<Step("", "actions/download-artifact@v3", "", "", <<>>,
               <<KV("name", <<"wheels">>)>>, <<>>),
          Step("Publish to PyPI", "PyO3/maturin-action@v1", "", "",
               <<KV("MATURIN_PYPI_TOKEN", <<"${{ secrets.PYPI_API_TOKEN }}">>)>>,
               <<KV("command", <<"upload">>),
                 KV("args", <<"--skip-existing", "*">>)>>,
               <<>>)>>
        \o (IF release_has_wasm THEN wasm_release_steps ELSE <<>>))

----------------------------------------------------------------------------
(* Operations                                                              *)

NoConf == [header |-> <<>>, jobs |-> <<>>]

\* The GenerateCI values whose output is one of outs.
GenerateCI(outs) ==
    [platforms : PlatformLists, pytest : BOOLEAN, zig : BOOLEAN,
     manifest_path : ManifestPaths, output : outs]

\* A call of generate_github on a GenerateCI with the default output.
Init ==
    /\ self \in GenerateCI({"-"})
    /\ project_name \in ProjectNames
    /\ bridge_model \in BridgeModel
    /\ sdist \in BOOLEAN
    /\ argv \in Argvs
    /\ pc = "start"
    /\ conf = NoConf
    /\ needs = <<>>
    /\ platforms = {}
    /\ iter = <<>>
    /\ prev = <<>>
    /\ dest = <<>>
    /\ ret = "none"

\* skip_platform that only drops Emscripten for Bin(None).
skip_platform_no_hosted(platform) ==
    bridge_model.kind = "Bin" /\ ~bridge_model.some /\ platform = "Emscripten"

\* The `continue` of the platform loop.
skip_platform(platform) == is_bin(bridge_model) /\ platform = "Emscripten"

\* push_needs with the runner's os name for the job name.
push_needs_os(platform) == Append(needs, os_name(platform))

\* needs.push(platform.to_string())
push_needs(platform) == Append(needs, Platform_fmt(platform))

\* platform_iter over a Vec: request order, repetitions kept.
platform_iter_vec == flat_map(self.platforms, bridge_model)

\* The order in which the platform loop visits the requested platforms:
\* flat_map, collected into a BTreeSet, iterated ascending.
platform_iter == BTreeSet_iter(collect(flat_map(self.platforms, bridge_model)))

\* Entry of generate_github up to the platform loop: the header and the set.
Start ==
    /\ pc = "start"
    /\ conf' = [header |-> Header, jobs |-> <<>>]
    /\ needs' = <<>>
    /\ platforms' = collect(flat_map(self.platforms, bridge_model))
    /\ iter' = platform_iter
    /\ pc' = "loop"
    /\ UNCHANGED <<self, project_name, bridge_model, sdist, argv, prev>>
    /\ UNCHANGED <<dest, ret>>

\* An iteration that hits `continue`.
LoopContinue ==
    /\ pc = "loop"
    /\ iter # <<>>
    /\ skip_platform(Head(iter))
    /\ iter' = Tail(iter)
    /\ UNCHANGED <<self, project_name, bridge_model, sdist, argv, pc, conf,
                   needs, platforms, prev>>
    /\ UNCHANGED <<dest, ret>>

\* An iteration that emits the job of one platform.
LoopBody ==
    /\ pc = "loop"
    /\ iter # <<>>
    /\ ~skip_platform(Head(iter))
    /\ ~unwrap_panics
    /\ needs' = push_needs(Head(iter))
    /\ conf' = [conf EXCEPT !.jobs = Append(@, platform_job(Head(iter)))]
    /\ iter' = Tail(iter)
    /\ UNCHANGED <<self, project_name, bridge_model, sdist, argv, pc,
                   platforms, prev>>
    /\ UNCHANGED <<dest, ret>>

\* An iteration whose `manifest_path.parent().unwrap()` panics: the call
\* unwinds and returns no document.
LoopPanic ==
    /\ pc = "loop"
    /\ iter # <<>>
    /\ ~skip_platform(Head(iter))
    /\ unwrap_panics
    /\ needs' = push_needs(Head(iter))
    /\ pc' = "panic"
    /\ UNCHANGED <<self, project_name, bridge_model, sdist, argv, conf,
                   platforms, iter, prev>>
    /\ UNCHANGED <<dest, ret>>

\* After the loop: the sdist job, when asked for.
BuildSdist ==
    /\ pc = "loop"
    /\ iter = <<>>
    /\ IF sdist
       THEN /\ needs' = Append(needs, "sdist")
            /\ conf' = [conf EXCEPT !.jobs = Append(@, sdist_job)]
       ELSE UNCHANGED <<needs, conf>>
    /\ pc' = "release"
    /\ UNCHANGED <<self, project_name, bridge_model, sdist, argv, platforms,
                   iter, prev>>
    /\ UNCHANGED <<dest, ret>>

\* The release job, then Ok(conf).
Release ==
    /\ pc = "release"
    /\ conf' = [conf EXCEPT !.jobs = Append(@, release_job)]
    /\ pc' = "done"
    /\ UNCHANGED <<self, project_name, bridge_model, sdist, argv, needs,
                   platforms, iter, prev>>
    /\ UNCHANGED <<dest, ret>>

Next ==
    \/ Start
    \/ LoopContinue
    \/ LoopBody
    \/ LoopPanic
    \/ BuildSdist
    \/ Release

Spec == Init /\ [][Next]_vars

----------------------------------------------------------------------------
(* Two invocations                                                         *)

\* A second invocation of generate_github on the same bridge model, project
\* name and sdist flag.  Either it runs in another process (any argument
\* vector) with the same GenerateCI, or in the same process with the
\* platforms listed in another order or with other repetitions, or in the
\* same process with the zig flag toggled.
Rerun ==
    /\ pc = "done"
    /\ prev = <<>>
    /\ prev' = <<[self |-> self, argv |-> argv, conf |-> conf]>>
    /\ \/ /\ argv' \in Argvs
          /\ self' = self
       \/ /\ argv' = argv
          /\ \E l \in PlatformLists :
               /\ l # self.platforms
               /\ Range(l) = Range(self.platforms)
               /\ self' = [self EXCEPT !.platforms = l]
       \/ /\ argv' = argv
          /\ self' = [self EXCEPT !.zig = ~@]
    /\ pc' = "start"
    /\ conf' = NoConf
    /\ needs' = <<>>
    /\ platforms' = {}
    /\ iter' = <<>>
    /\ UNCHANGED <<project_name, bridge_model, sdist>>
    /\ UNCHANGED <<dest, ret>>

\* The first process was started as the freshly built binary.
InitTwice == Init /\ argv = <<"./target/debug/maturin", "generate-ci", "github">>

NextTwice == Next \/ Rerun

SpecTwice == InitTwice /\ [][NextTwice]_vars

----------------------------------------------------------------------------
(* execute                                                                 *)

Outputs == {"-", "ci.yml"}

\* print with the output never taken for the stdout sentinel.
to_stdout_never == FALSE

\* `self.output == Path::new("-")`
to_stdout == self.output = "-"

\* generate: ProjectResolver::resolve returns Err and `?` returns it.
GenerateResolveErr ==
    /\ pc = "execute"
    /\ ret' = "Err(resolve)"
    /\ pc' = "returned"
    /\ UNCHANGED <<self, project_name, bridge_model, sdist, argv, conf, needs,
                   platforms, iter, prev, dest>>

\* generate: find_bridge returns Err and `?` returns it.
GenerateFindBridgeErr ==
    /\ pc = "execute"
    /\ ret' = "Err(find_bridge)"
    /\ pc' = "returned"
    /\ UNCHANGED <<self, project_name, bridge_model, sdist, argv, conf, needs,
                   platforms, iter, prev, dest>>

\* generate: the project resolves to the bridge model, the project name and
\* the sdist flag, and generate_github is called with them.
GenerateResolved ==
    /\ pc = "execute"
    /\ pc' = "start"
    /\ UNCHANGED <<self, project_name, bridge_model, sdist, argv, conf, needs,
                   platforms, iter, prev, dest, ret>>

\* print to stdout: `print!` writes the document, or panics when the write
\* fails.
PrintStdout ==
    /\ pc = "done"
    /\ to_stdout
    /\ \E ok \in BOOLEAN :
         /\ dest' = Append(dest, [to |-> "stdout", content |-> conf, ok |-> ok])
         /\ IF ok
            THEN ret' = "Ok" /\ pc' = "returned"
            ELSE ret' = ret /\ pc' = "panic"
    /\ UNCHANGED <<self, project_name, bridge_model, sdist, argv, conf, needs,
                   platforms, iter, prev>>

\* print to a file: fs::write writes the document, or its error is returned.
PrintFile ==
    /\ pc = "done"
    /\ ~to_stdout
    /\ \E ok \in BOOLEAN :
         /\ dest' = Append(dest, [to |-> self.output, content |-> conf, ok |-> ok])
         /\ ret' = IF ok THEN "Ok" ELSE "Err(write)"
    /\ pc' = "returned"
    /\ UNCHANGED <<self, project_name, bridge_model, sdist, argv, conf, needs,
                   platforms, iter, prev>>

\* A call of execute, in a process started as `maturin generate-ci github`.
InitExecute ==
    /\ self \in GenerateCI(Outputs)
    /\ project_name \in ProjectNames
    /\ bridge_model \in BridgeModel
    /\ sdist \in BOOLEAN
    /\ argv = <<"maturin", "generate-ci", "github">>
    /\ pc = "execute"
    /\ conf = NoConf
    /\ needs = <<>>
    /\ platforms = {}
    /\ iter = <<>>
    /\ prev = <<>>
    /\ dest = <<>>
    /\ ret = "none"

NextExecute ==
    \/ GenerateResolveErr
    \/ GenerateFindBridgeErr
    \/ GenerateResolved
    \/ Next
    \/ PrintStdout
    \/ PrintFile

SpecExecute == InitExecute /\ [][NextExecute]_vars

----------------------------------------------------------------------------
(* Reading a document                                                      *)

PlatformJobNames == {"linux", "windows", "macos", "emscripten"}

\* Canonical rank of a platform job section.
JobRank(id) ==
    CASE id = "linux" -> 1
      [] id = "windows" -> 2
      [] id = "macos" -> 3
      [] id = "emscripten" -> 4

IsPlatformJob(j) == j.id \in PlatformJobNames

JobIds(jobs) == [i \in 1..Len(jobs) |-> jobs[i].id]

PlatformJobs(jobs) == SelectSeq(jobs, IsPlatformJob)

IsSetupPython(st) == st.uses = "actions/setup-python@v4"

IsPytest(st) == st.name = "pytest"

HasStep(j, P(_)) == \E i \in 1..Len(j.steps) : P(j.steps[i])

\* The tokens after `--release --out dist` of a job's `Build wheels` step.
ExtraBuildArgs(j) ==
    LET st == CHOOSE x \in Range(j.steps) : x.name = "Build wheels"
        kv == CHOOSE x \in Range(st.with) : x.key = "args"
    IN SubSeq(kv.val, 4, Len(kv.val))

IsWasmDownload(st) ==
    /\ st.uses = "actions/download-artifact@v3"
    /\ \E i \in 1..Len(st.with) : st.with[i] = KV("name", <<"wasm-wheels">>)

IsGhRelease(st) == st.name = "Upload to GitHub Release"

LastJob == conf.jobs[Len(conf.jobs)]

BinNone == [kind |-> "Bin", some |-> FALSE]

----------------------------------------------------------------------------
(* Claims                                                                  *)

\* C1: when generate_github returns, the last section is the release job and
\* its `needs:` is exactly the list of the names of the sections emitted
\* before it, in emission order, each name once; `sdist` is among them iff
\* the sdist flag is set, and then it is the last.
C1_NeedsAreEmittedJobs ==
    pc = "done" =>
        LET n == Len(conf.jobs)
            ids == JobIds(conf.jobs)
        IN /\ n >= 1
           /\ ids[n] = "release"
           /\ LastJob.needs = SubSeq(ids, 1, n - 1)
           /\ \A i, k \in 1..(n - 1) : ids[i] = ids[k] => i = k
           /\ \A i \in 1..(n - 1) :
                ids[i] \in PlatformJobNames \/ (ids[i] = "sdist" /\ i = n - 1)
           /\ sdist <=> (n >= 2 /\ ids[n - 1] = "sdist")

C1_Witness ==
    /\ pc = "done"
    /\ sdist
    /\ LastJob.needs = <<"linux", "windows", "macos", "sdist">>

\* C2: a platform job has the setup-python step iff the pytest flag is set or
\* the bridge model is anything other than Bin(None); so all platform jobs
\* of a document agree.
C2_SetupPythonIff ==
    \A i \in 1..Len(conf.jobs) :
        IsPlatformJob(conf.jobs[i]) =>
            (HasStep(conf.jobs[i], IsSetupPython)
                <=> (self.pytest \/ bridge_model # BinNone))

C2_Witness ==
    /\ pc = "done"
    /\ bridge_model = [kind |-> "Bin", some |-> TRUE]
    /\ ~self.pytest
    /\ \E i \in 1..Len(conf.jobs) : HasStep(conf.jobs[i], IsSetupPython)

\* C3 as stated: with Bin(None) and the pytest flag set, no job has a
\* setup-python step or a pytest step.
C3_NoPythonForBinNoneWithPytest ==
    (bridge_model = BinNone /\ self.pytest) =>
        \A i \in 1..Len(conf.jobs) :
            /\ ~HasStep(conf.jobs[i], IsSetupPython)
            /\ ~HasStep(conf.jobs[i], IsPytest)

\* C3 amended: with Bin(None), no job has a setup-python step or a pytest
\* step when the pytest flag is false; when the flag is true every platform
\* job has both, and the sdist and release jobs have neither.
C3_BinNoneFollowsPytestFlag ==
    bridge_model = BinNone =>
        \A i \in 1..Len(conf.jobs) :
            LET j == conf.jobs[i]
                on == self.pytest /\ IsPlatformJob(j)
            IN /\ HasStep(j, IsSetupPython) <=> on
               /\ HasStep(j, IsPytest) <=> on

C3_Witness ==
    /\ pc = "done"
    /\ bridge_model = BinNone
    /\ self.pytest
    /\ \E i \in 1..Len(conf.jobs) :
         HasStep(conf.jobs[i], IsSetupPython) /\ HasStep(conf.jobs[i], IsPytest)

\* C4: the release job has the two wasm steps (download `wasm-wheels`, then
\* `Upload to GitHub Release`) iff an emscripten job was emitted.
C4_WasmStepsIffEmscriptenJob ==
    pc = "done" =>
        LET emitted == "emscripten" \in Range(JobIds(conf.jobs))
            n == Len(LastJob.steps)
        IN /\ emitted =>
                /\ n >= 2
                /\ IsWasmDownload(LastJob.steps[n - 1])
                /\ IsGhRelease(LastJob.steps[n])
           /\ ~emitted =>
                /\ ~HasStep(LastJob, IsWasmDownload)
                /\ ~HasStep(LastJob, IsGhRelease)

\* C5: generate_github never panics.
C5_NeverPanics == pc # "panic"

\* C6 as stated: two invocations with the same GenerateCI, bridge model,
\* project name and sdist flag return the same document, whatever the
\* argument vectors of their processes.
C6_SameInputsSameDocument ==
    (pc = "done" /\ prev # <<>> /\ prev[1].self = self) =>
        conf = prev[1].conf

\* C6 amended: two such invocations return documents with the same job
\* sections and the same header except for its command line (line 4); the
\* documents are identical when the argument vectors agree after the program
\* name.
C6_SameInputsSameBody ==
    (pc = "done" /\ prev # <<>> /\ prev[1].self = self) =>
        LET p == prev[1]
        IN /\ conf.jobs = p.conf.jobs
           /\ Len(conf.header) = Len(p.conf.header)
           /\ \A i \in 1..Len(conf.header) :
                i # 4 => conf.header[i] = p.conf.header[i]
           /\ Tail(argv) = Tail(p.argv) => conf = p.conf

C6_Witness ==
    /\ pc = "done"
    /\ prev # <<>>
    /\ prev[1].self = self
    /\ argv # prev[1].argv
    /\ Tail(argv) = Tail(prev[1].argv)
    /\ conf = prev[1].conf

\* C7: no job is ever named `all`; and when the request contains `All`, the
\* platform jobs of the returned document are linux, windows, macos,
\* emscripten for a bridge that is not a binary, and linux, windows, macos
\* for a binary.
C7_AllExpands ==
    /\ \A i \in 1..Len(conf.jobs) : conf.jobs[i].id # "all"
    /\ (pc = "done" /\ "All" \in Range(self.platforms)) =>
          JobIds(PlatformJobs(conf.jobs)) =
              IF bridge_model.kind = "Bin"
              THEN <<"linux", "windows", "macos">>
              ELSE <<"linux", "windows", "macos", "emscripten">>

C7_Witness ==
    /\ pc = "done"
    /\ "All" \in Range(self.platforms)
    /\ bridge_model.kind # "Bin"
    /\ "emscripten" \in Range(JobIds(conf.jobs))

\* C8: for a binary bridge there is no emscripten section and no `emscripten`
\* in any `needs:`, however Emscripten was requested.
C8_NoEmscriptenForBin ==
    bridge_model.kind = "Bin" =>
        /\ "emscripten" \notin Range(needs)
        /\ \A i \in 1..Len(conf.jobs) :
             /\ conf.jobs[i].id # "emscripten"
             /\ "emscripten" \notin Range(conf.jobs[i].needs)

C8_Witness ==
    /\ pc = "done"
    /\ bridge_model.kind = "Bin"
    /\ self.platforms = <<"All", "Emscripten">>
    /\ Len(conf.jobs) = IF sdist THEN 5 ELSE 4

\* C9: platform sections appear in the order linux, windows, macos,
\* emscripten, each at most once; and two invocations that differ only in
\* the order or repetition of the requested platforms return the same job
\* sections.
C9_PlatformSetOnly ==
    /\ LET ids == JobIds(PlatformJobs(conf.jobs))
       IN \A i, k \in 1..Len(ids) : i < k => JobRank(ids[i]) < JobRank(ids[k])
    /\ (/\ pc = "done"
        /\ prev # <<>>
        /\ [prev[1].self EXCEPT !.platforms = self.platforms] = self
        /\ Range(prev[1].self.platforms) = Range(self.platforms))
       => conf.jobs = prev[1].conf.jobs

C9_Witness ==
    /\ pc = "done"
    /\ prev # <<>>
    /\ prev[1].self.platforms # self.platforms
    /\ Range(prev[1].self.platforms) = Range(self.platforms)
    /\ Len(PlatformJobs(conf.jobs)) >= 2

\* C10: in every platform job the `Build wheels` arguments after
\* `--release --out dist` begin with the interpreter choice of the table:
\* nothing for BindingsAbi3 or for a binary whose job has no setup-python
\* step, else `-i 3.10` in the emscripten job, else `--find-interpreter`;
\* and no other interpreter flag follows.
C10_InterpreterArgs ==
    \A i \in 1..Len(conf.jobs) :
        IsPlatformJob(conf.jobs[i]) =>
            LET j == conf.jobs[i]
                rest == ExtraBuildArgs(j)
                expected ==
                    IF \/ bridge_model.kind = "BindingsAbi3"
                       \/ (bridge_model.kind = "Bin" /\ ~HasStep(j, IsSetupPython))
                    THEN <<>>
                    ELSE IF j.id = "emscripten" THEN <<"-i", "3.10">>
                    ELSE <<"--find-interpreter">>
            IN /\ Len(rest) >= Len(expected)
               /\ SubSeq(rest, 1, Len(expected)) = expected
               /\ \A k \in (Len(expected) + 1)..Len(rest) :
                    rest[k] \notin {"-i", "--find-interpreter"}

C10_Witness ==
    /\ pc = "done"
    /\ \E i \in 1..Len(conf.jobs) :
         /\ conf.jobs[i].id = "emscripten"
         /\ Len(ExtraBuildArgs(conf.jobs[i])) >= 2
         /\ SubSeq(ExtraBuildArgs(conf.jobs[i]), 1, 2) = <<"-i", "3.10">>
    /\ \E i \in 1..Len(conf.jobs) :
         /\ conf.jobs[i].id = "linux"
         /\ Len(ExtraBuildArgs(conf.jobs[i])) >= 1
         /\ ExtraBuildArgs(conf.jobs[i])[1] = "--find-interpreter"

\* The token list of the `args:` of a job's `Build wheels` step.
BuildArgs(j) ==
    LET st == CHOOSE x \in Range(j.steps) : x.name = "Build wheels"
        kv == CHOOSE x \in Range(st.with) : x.key = "args"
    IN kv.val

\* The job with the `args:` of its `Build wheels` step replaced by v.
WithBuildArgs(j, v) ==
    [j EXCEPT !.steps =
        [i \in 1..Len(j.steps) |->
            IF j.steps[i].name = "Build wheels"
            THEN [j.steps[i] EXCEPT !.with =
                    [k \in 1..Len(j.steps[i].with) |->
                        IF j.steps[i].with[k].key = "args"
                        THEN KV("args", v)
                        ELSE j.steps[i].with[k]]]
            ELSE j.steps[i]]]

\* C11: two invocations that differ only in the zig flag return documents
\* with the same header and the same sections, except that the `args:` of the
\* linux job's `Build wheels` step has `--zig` appended as its last token
\* when the flag is set; without a linux job the documents are identical.
C11_ZigOnlyLinuxArgs ==
    (/\ pc = "done"
     /\ prev # <<>>
     /\ argv = prev[1].argv
     /\ self.zig # prev[1].self.zig
     /\ [prev[1].self EXCEPT !.zig = self.zig] = self)
    => LET on == IF self.zig THEN conf ELSE prev[1].conf
           off == IF self.zig THEN prev[1].conf ELSE conf
       IN /\ on.header = off.header
          /\ Len(on.jobs) = Len(off.jobs)
          /\ \A i \in 1..Len(on.jobs) :
               IF on.jobs[i].id = "linux"
               THEN /\ off.jobs[i].id = "linux"
                    /\ BuildArgs(on.jobs[i])
                         = Append(BuildArgs(off.jobs[i]), "--zig")
                    /\ "--zig" \notin Range(BuildArgs(off.jobs[i]))
                    /\ WithBuildArgs(on.jobs[i], BuildArgs(off.jobs[i]))
                         = off.jobs[i]
               ELSE on.jobs[i] = off.jobs[i]
          /\ "linux" \notin Range(JobIds(on.jobs)) => on = off

C11_Witness ==
    /\ pc = "done"
    /\ prev # <<>>
    /\ self.zig
    /\ ~prev[1].self.zig
    /\ [prev[1].self EXCEPT !.zig = TRUE] = self
    /\ manifest_overridden
    /\ JobIds(conf.jobs) = <<"linux", "windows", "release">>
    /\ conf # prev[1].conf

\* The token lists of all the `args:` of a job.
ArgsValues(j) ==
    LET kvs == UNION {Range(j.steps[i].with) : i \in 1..Len(j.steps)}
    IN {x.val : x \in {y \in kvs : y.key = "args"}}

\* The token list of the `args:` of the step of that name.
ArgsOfStep(j, name) ==
    LET st == CHOOSE x \in Range(j.steps) : x.name = name
    IN (CHOOSE x \in Range(st.with) : x.key = "args").val

\* The script of a test step: its `run:`, or the `run:` given to the action.
Script(st) ==
    IF st.run # <<>> THEN st.run
    ELSE (CHOOSE x \in Range(st.with) : x.key = "run").val

\* The tokens that follow a `--manifest-path` in a token list.
ManifestPathArgs(a) ==
    [i \in 1..Len(SelectSeq(a, LAMBDA t : t = "--manifest-path")) |->
        LET k == CHOOSE k \in 1..Len(a) :
                    /\ a[k] = "--manifest-path"
                    /\ Cardinality({m \in 1..k : a[m] = "--manifest-path"}) = i
        IN IF k < Len(a) THEN a[k + 1] ELSE ""]

\* C12: when manifest_path is Some and is not `Cargo.toml`, the `Build wheels`
\* step of every platform job and the `Build sdist` step carry exactly one
\* `--manifest-path <path>`, and the last line of every pytest step's script
\* is `cd <parent> && ` followed by the pytest invocation; otherwise no
\* `args:` of any job has a `--manifest-path` and the last line is the bare
\* invocation.
C12_ManifestPropagation ==
    LET over == self.manifest_path \notin {<<>>, <<"Cargo.toml">>}
        want == IF over THEN <<self.manifest_path[1]>> ELSE <<>>
        cd == IF over
              THEN "cd " \o Path_parent(self.manifest_path[1])[1] \o " && "
              ELSE ""
    IN \A i \in 1..Len(conf.jobs) :
         LET j == conf.jobs[i]
         IN /\ IsPlatformJob(j) =>
                 ManifestPathArgs(ArgsOfStep(j, "Build wheels")) = want
            /\ j.id = "sdist" =>
                 ManifestPathArgs(ArgsOfStep(j, "Build sdist")) = want
            /\ ~over => \A a \in ArgsValues(j) : "--manifest-path" \notin Range(a)
            /\ \A k \in 1..Len(j.steps) :
                 IsPytest(j.steps[k]) =>
                    LET sc == Script(j.steps[k])
                    IN sc[Len(sc)] \in {cd \o "pytest", cd \o "python -m pytest"}

C12_Witness ==
    /\ pc = "done"
    /\ self.manifest_path = <<"pkg/Cargo.toml">>
    /\ self.pytest
    /\ sdist
    /\ JobIds(conf.jobs) = <<"linux", "emscripten", "sdist", "release">>
    /\ \A i \in 1..3 : \E a \in ArgsValues(conf.jobs[i]) :
          "pkg/Cargo.toml" \in Range(a)
    /\ \E k \in 1..Len(conf.jobs[1].steps) :
          /\ IsPytest(conf.jobs[1].steps[k])
          /\ Script(conf.jobs[1].steps[k])[4] = "cd pkg && pytest"

\* C13: the returned document has its platform sections first, in the order
\* linux, windows, macos, emscripten, then `sdist` iff the sdist flag is set,
\* then `release` as the one last section; there is one platform section per
\* platform of the set that is not skipped.  For Bindings, the platforms
\* Linux, Windows, Macos, sdist and no pytest: the five sections linux,
\* windows, macos, sdist, release, and no test step.
C13_SectionOrder ==
    pc = "done" =>
        LET ids == JobIds(conf.jobs)
            n == Len(ids)
            np == Cardinality({p \in platforms :
                                  ~(bridge_model.kind = "Bin" /\ p = "Emscripten")})
            ns == IF sdist THEN 1 ELSE 0
        IN /\ n = np + ns + 1
           /\ \A i \in 1..np : ids[i] \in PlatformJobNames
           /\ \A i, k \in 1..np : i < k => JobRank(ids[i]) < JobRank(ids[k])
           /\ sdist => ids[np + 1] = "sdist"
           /\ ids[n] = "release"
           /\ (/\ bridge_model.kind = "Bindings"
               /\ self.platforms = <<"Linux", "Windows", "Macos">>
               /\ sdist
               /\ ~self.pytest)
              => /\ ids = <<"linux", "windows", "macos", "sdist", "release">>
                 /\ \A i \in 1..n : ~HasStep(conf.jobs[i], IsPytest)

C13_Witness ==
    /\ pc = "done"
    /\ bridge_model.kind = "Bindings"
    /\ self.platforms = <<"Linux", "Windows", "Macos">>
    /\ sdist
    /\ ~self.pytest
    /\ Len(conf.jobs) = 5

\* C14 as stated: the destination is written at most once, with the whole
\* document generate returned; nothing is written when resolution or bridge
\* detection fails; and when the write fails execute returns its error.
C14_OneWriteErrorsReturned ==
    /\ Len(dest) <= 1
    /\ \A i \in 1..Len(dest) :
         /\ dest[i].content = conf
         /\ conf.header # <<>>
         /\ LastJob.id = "release"
         /\ ~dest[i].ok => (pc = "returned" /\ ret = "Err(write)")
    /\ ret \in {"Err(resolve)", "Err(find_bridge)"} => dest = <<>>

\* C14 amended: as above, except that only a failing write to the output file
\* is returned as an error; a failing write to stdout panics and execute
\* returns nothing.
C14_OneWriteFileErrorsReturned ==
    /\ Len(dest) <= 1
    /\ \A i \in 1..Len(dest) :
         /\ dest[i].content = conf
         /\ conf.header # <<>>
         /\ LastJob.id = "release"
         /\ dest[i].to = (IF self.output = "-" THEN "stdout" ELSE self.output)
         /\ dest[i].ok => (pc = "returned" /\ ret = "Ok")
         /\ ~dest[i].ok =>
               IF self.output = "-"
               THEN pc = "panic" /\ ret = "none"
               ELSE pc = "returned" /\ ret = "Err(write)"
    /\ ret \in {"Err(resolve)", "Err(find_bridge)"} =>
         (dest = <<>> /\ conf = NoConf)
    /\ dest # <<>> => pc \in {"returned", "panic"}
    /\ ret = "Ok" => dest # <<>>

C14_Witness ==
    /\ pc = "returned"
    /\ ret = "Err(write)"
    /\ self.output = "ci.yml"
    /\ Len(dest) = 1
    /\ ~dest[1].ok

\* The characters of the architecture names the guards and matrices use.
Chars(t) ==
    CASE t = "x86_64" -> <<"x", "8", "6", "_", "6", "4">>
      [] t = "x86" -> <<"x", "8", "6">>
      [] t = "x64" -> <<"x", "6", "4">>
      [] t = "aarch64" -> <<"a", "a", "r", "c", "h", "6", "4">>
      [] t = "armv7" -> <<"a", "r", "m", "v", "7">>
      [] t = "s390x" -> <<"s", "3", "9", "0", "x">>
      [] t = "ppc64le" -> <<"p", "p", "c", "6", "4", "l", "e">>
      [] t = "ppc64" -> <<"p", "p", "c", "6", "4">>

\* The workflow expression function startsWith.
startsWith(t, prefix) ==
    /\ Len(Chars(prefix)) <= Len(Chars(t))
    /\ SubSeq(Chars(t), 1, Len(Chars(prefix))) = Chars(prefix)

\* Whether a step with the guard g runs in the matrix job of target t.
GuardHolds(g, t) ==
    CASE g = "" -> TRUE
      [] g = "${{ startsWith(matrix.target, 'x86_64') }}" ->
           startsWith(t, "x86_64")
      [] g = "${{ !startsWith(matrix.target, 'x86') && matrix.target != 'ppc64' }}" ->
           ~startsWith(t, "x86") /\ t # "ppc64"
      [] g = "${{ !startsWith(matrix.target, 'aarch64') }}" ->
           ~startsWith(t, "aarch64")
      [] OTHER -> FALSE

\* The targets of a job's matrix on which the step runs.
RunsOn(j, st) == {t \in Range(j.targets) : GuardHolds(st.guard, t)}

\* C15: with the pytest flag, the linux job has the matrix x86_64, x86,
\* aarch64, armv7, s390x, ppc64le and two test steps: the first runs on the
\* host, for x86_64 only; the second runs under emulation, for every other
\* target of the matrix but one; no target runs both.
C15_LinuxTestGuards ==
    \A i \in 1..Len(conf.jobs) :
        (self.pytest /\ conf.jobs[i].id = "linux") =>
            LET j == conf.jobs[i]
                tests == SelectSeq(j.steps, IsPytest)
                host == RunsOn(j, tests[1])
                emu == RunsOn(j, tests[2])
                others == Range(j.targets) \ {"x86_64"}
            IN /\ j.targets = <<"x86_64", "x86", "aarch64", "armv7", "s390x", "ppc64le">>
               /\ Len(tests) = 2
               /\ tests[1].uses = ""
               /\ tests[2].uses = "uraimo/run-on-arch-action@v2.5.0"
               /\ host = {"x86_64"}
               /\ emu \subseteq others
               /\ Cardinality(others \ emu) = 1
               /\ host \cap emu = {}

C15_Witness ==
    /\ pc = "done"
    /\ self.pytest
    /\ conf.jobs[1].id = "linux"
    /\ RunsOn(conf.jobs[1], SelectSeq(conf.jobs[1].steps, IsPytest)[2])
         = {"aarch64", "armv7", "s390x", "ppc64le"}

\* What a step is, by the action it uses, its name or its script.
StepKind(st) ==
    CASE st.uses = "actions/checkout@v3" -> "checkout"
      [] st.uses = "actions/setup-python@v4" -> "setup-python"
      [] st.run = <<"pip install pyodide-build">> -> "pip-pyodide-build"
      [] st.run = <<"echo EMSCRIPTEN_VERSION=$(pyodide config get emscripten_version) >> $GITHUB_ENV">>
           -> "export-emscripten-version"
      [] st.uses = "mymindstorm/setup-emsdk@v12" -> "setup-emsdk"
      [] st.name = "Build wheels" -> "build"
      [] st.name = "Upload wheels" -> "upload"
      [] st.uses = "actions/setup-node@v3" -> "setup-node"
      [] st.name = "pytest" -> "pytest"
      [] OTHER -> "other"

StepKinds(j) == [i \in 1..Len(j.steps) |-> StepKind(j.steps[i])]

\* C16: the steps of a platform job are checkout, then setup-python if
\* present, then in the emscripten job the three bootstrap steps, then
\* `Build wheels`, then `Upload wheels`, then the test steps; the test steps
\* are there iff the pytest flag is set: two in the linux job, one in the
\* windows and macos jobs, setup-node and one in the emscripten job.
C16_StepSkeleton ==
    \A i \in 1..Len(conf.jobs) :
        IsPlatformJob(conf.jobs[i]) =>
            LET j == conf.jobs[i]
                boot == IF j.id = "emscripten"
                        THEN <<"pip-pyodide-build", "export-emscripten-version",
                               "setup-emsdk">>
                        ELSE <<>>
                tests == IF ~self.pytest THEN <<>>
                         ELSE IF j.id = "linux" THEN <<"pytest", "pytest">>
                         ELSE IF j.id = "emscripten" THEN <<"setup-node", "pytest">>
                         ELSE <<"pytest">>
                tail == boot \o <<"build", "upload">> \o tests
            IN StepKinds(j) \in {<<"checkout">> \o tail,
                                 <<"checkout", "setup-python">> \o tail}

C16_Witness ==
    /\ pc = "done"
    /\ self.pytest
    /\ \E i \in 1..Len(conf.jobs) :
         StepKinds(conf.jobs[i]) =
            <<"checkout", "setup-python", "pip-pyodide-build",
              "export-emscripten-version", "setup-emsdk", "build", "upload",
              "setup-node", "pytest">>
    /\ \E i \in 1..Len(conf.jobs) :
         StepKinds(conf.jobs[i]) =
            <<"checkout", "setup-python", "build", "upload", "pytest", "pytest">>

\* The artifact names the steps of a job give to the action `uses`.
ArtifactNames(j, uses) ==
    {kv.val[1] :
        kv \in {x \in UNION {Range(j.steps[i].with) :
                                i \in {k \in 1..Len(j.steps) : j.steps[k].uses = uses}} :
                    x.key = "name"}}

\* C17: the `needs:` of the release job is not empty, and every artifact the
\* release job downloads is uploaded under that name by a job of its
\* `needs:`.
C17_ArtifactsProduced ==
    pc = "done" =>
        /\ LastJob.needs # <<>>
        /\ \A a \in ArtifactNames(LastJob, "actions/download-artifact@v3") :
             \E i \in 1..Len(conf.jobs) :
                /\ conf.jobs[i].id \in Range(LastJob.needs)
                /\ a \in ArtifactNames(conf.jobs[i], "actions/upload-artifact@v3")

====
